---- MODULE Spec2Model ----
(***************************************************************************)
(* A model of the YAML stream composer (src/src/compose/composer.ts,       *)
(* src/src/compose/compose-doc.ts) and of the CST visitor                  *)
(* (src/unnamed/part_000: visit, _visit, visit.itemAtPath,                 *)
(* visit.parentCollection).                                                *)
(*                                                                         *)
(* Strings are sequences of one-character strings, so that source[0],      *)
(* source.substring(1) and concatenation are computed as the code computes *)
(* them.  The empty sequence stands for both '' and undefined: the code    *)
(* only ever tests these fields for truthiness.                            *)
(***************************************************************************)
EXTENDS Integers, Sequences, FiniteSets, TLC

\* Longest token stream fed to the composer.
MaxTokens == 3
\* Largest number of items in a CST tree handed to visit.
MaxItems == 4
\* Largest number of visitor calls of one traversal that return something
\* other than undefined.
MaxSpecial == 2

VARIABLES
  \* ---- Composer fields (composer.ts 78-84)
  directives,    \* this.directives: the directive sources added so far
  doc,           \* this.doc: 0 (null) or the identity of the buffered document
  atDirectives,  \* this.atDirectives
  prelude,       \* this.prelude
  errors,        \* this.errors
  warnings,      \* this.warnings
  \* ---- the heap of Document objects and the output of the generators
  docs,          \* every Document created so far, indexed by identity
  yielded,       \* identities of the documents yielded so far, in order
  yieldedAs,     \* the value each yielded document had when it was yielded
  \* ---- the calls made so far
  stream,        \* the tokens passed to next() so far, in order
  last,          \* the last call: its kind and its arguments
  ended,         \* end() has been called
  \* ---- the CST tree and the traversal of visit (part_000)
  tree,          \* the items of the tree: item -> [key, value]
  tree0,         \* the tree as it was when visit was called
  rootType,      \* "document" or "item": what the root handed to visit is
  stack,         \* the active _visit frames, the root's first
  calls,         \* the visitor invocations made so far, in order
  vstate,        \* "idle", "running" or "done"
  returned,      \* what the root's _visit returned
  \* ---- a lookup: itemAtPath(root, path), then parentCollection(root, path)
  lookup         \* its position, its path and the two results

cvars == <<directives, doc, atDirectives, prelude, errors, warnings,
           docs, yielded, yieldedAs, stream, last, ended>>

vvars == <<tree, tree0, rootType, stack, calls, vstate, returned, lookup>>

vars == <<cvars, vvars>>

----------------------------------------------------------------------------
(* Strings *)

EmptyStr == <<>>
NL == <<"\n">>
\* s[0] of a JS string: the first character, or undefined ("") when empty
Char0(s) == IF Len(s) = 0 THEN "" ELSE s[1]
\* s.substring(1)
Substring1(s) == IF Len(s) = 0 THEN <<>> ELSE Tail(s)
Truthy(s) == Len(s) > 0

----------------------------------------------------------------------------
(* Tokens: the input alphabet.  A token at position p of the stream has    *)
(* offset p - 1 and a source of length 1, so it ends at offset p.          *)

DirectiveTokens ==
  [type : {"directive"}, source : {<<"%", "Y">>},
   bad : {"none", "error", "warning"}]

DocumentTokens ==
  {t \in [type : {"document"},
          found : BOOLEAN,              \* resolveProps found a '---' marker
          hasNewline : BOOLEAN,         \* a newline follows the marker
          value : {"scalar", "block-map"},
          nodeError : {FALSE},          \* composeNode reported an error
          nodeComment : {EmptyStr},     \* comment composed onto the contents
          itemComment : {EmptyStr},     \* comment composed onto the first item
          endComment : {EmptyStr}] :    \* comment in the document's end tokens
     ~t.hasNewline => (t.found /\ t.value = "block-map")}

CommentTokens == [type : {"comment"}, source : {<<"#", "a">>, <<"#">>}]

NewlineTokens == [type : {"newline"}, source : {NL}]

IgnoredTokens == [type : {"byte-order-mark", "space"}]

ErrorTokens == [type : {"error"}, source : {<<"x">>}, message : {"bad"}]

DocEndTokens ==
  [type : {"doc-end"},
   endComment : {EmptyStr, <<"e">>},  \* comment after the '...' marker
   endError : {FALSE}]                \* resolveEnd reported an error

OtherTokens == [type : {"scalar"}]

Tokens ==
  DirectiveTokens \cup DocumentTokens \cup CommentTokens \cup NewlineTokens
    \cup IgnoredTokens \cup ErrorTokens \cup DocEndTokens \cup OtherTokens

----------------------------------------------------------------------------
(* Diagnostics *)

YAMLParseError(pos, code, message) ==
  [pos |-> pos, code |-> code, message |-> message]

YAMLWarning(pos, code, message) ==
  [pos |-> pos, code |-> code, message |-> message]

\* getErrorPos of a token at stream position p (offset p - 1)
getErrorPos(p) == p - 1

----------------------------------------------------------------------------
(* parsePrelude *)

\* a variant that forgets the "|| ' '" of the comment text
commentText_Unpadded(source) == Substring1(source)

\* source.substring(1) || ' '
commentText(source) ==
  IF Truthy(Substring1(source)) THEN Substring1(source) ELSE <<" ">>

\* a variant that never doubles the newline
separator_Single(afterEmptyLine) == NL

\* afterEmptyLine ? '\n\n' : '\n'
separator(afterEmptyLine) == IF afterEmptyLine THEN NL \o NL ELSE NL

RECURSIVE parsePreludeFrom(_, _, _, _, _)
parsePreludeFrom(pre, i, comment, atComment, afterEmptyLine) ==
  IF i > Len(pre)
  THEN [comment |-> comment, afterEmptyLine |-> afterEmptyLine]
  ELSE
    LET source == pre[i]
        text == commentText(source)
        sep == IF comment = EmptyStr THEN EmptyStr
               ELSE separator(afterEmptyLine)
        nextIsComment == i + 1 <= Len(pre) /\ Char0(pre[i + 1]) = "#"
    IN CASE Char0(source) = "#" ->
              parsePreludeFrom(pre, i + 1, comment \o sep \o text, TRUE, FALSE)
         [] Char0(source) = "%" ->
              parsePreludeFrom(pre, IF nextIsComment THEN i + 1 ELSE i + 2,
                               comment, FALSE, afterEmptyLine)
         [] OTHER ->
              parsePreludeFrom(pre, i + 1, comment, FALSE,
                               IF ~atComment THEN TRUE ELSE afterEmptyLine)

parsePrelude(pre) == parsePreludeFrom(pre, 1, EmptyStr, FALSE, FALSE)

----------------------------------------------------------------------------
(* Documents *)

NoContents ==
  [isNull |-> TRUE, isCollection |-> FALSE, flow |-> FALSE, nitems |-> 0,
   firstIsPair |-> FALSE, firstCommentBefore |-> EmptyStr,
   commentBefore |-> EmptyStr]

\* new Document(undefined, opts): no contents, no comments, no diagnostics
NewDocument(tok, dirs) ==
  [tok |-> tok, contents |-> NoContents, comment |-> EmptyStr,
   commentBefore |-> EmptyStr, docStart |-> FALSE, docEnd |-> FALSE,
   directives |-> dirs, range |-> <<0, 0, 0>>,
   errors |-> <<>>, warnings |-> <<>>]

\* composeNode / composeEmptyNode: the node composed from the token's value.
\* "empty" is an absent value (composeEmptyNode gives an empty scalar),
\* "block-empty" a block collection without items, "flow-seq" a flow
\* collection with an item, "flow-collection" one without.
composeNode(token) ==
  LET nitems == IF token.value \in {"block-map", "block-seq", "flow-seq"} THEN 1 ELSE 0
  IN [isNull |-> FALSE,
      isCollection |-> token.value \in {"block-map", "block-seq", "block-empty",
                                        "flow-collection", "flow-seq"},
      flow |-> token.value \in {"flow-collection", "flow-seq"},
      nitems |-> nitems,
      firstIsPair |-> token.value = "block-map",
      firstCommentBefore |-> IF nitems > 0 THEN token.itemComment ELSE EmptyStr,
      commentBefore |-> token.nodeComment]

\* composeDoc(options, directives, token, onError) for the token at position
\* p: the document, and the errors it reported through onError, in order.
composeDoc(dirs, token, p) ==
  LET blockOnMarkerLine ==
        token.found /\ token.value \in {"block-map", "block-seq"}
          /\ ~token.hasNewline
      reported ==
        (IF blockOnMarkerLine
         THEN <<YAMLParseError(getErrorPos(p), "MISSING_CHAR",
                  "Block collection cannot start on same line with directives-end marker")>>
         ELSE <<>>)
        \o (IF token.nodeError
            THEN <<YAMLParseError(getErrorPos(p), "BAD_NODE", "node")>>
            ELSE <<>>)
  IN [doc |-> [NewDocument(p, dirs) EXCEPT
                 !.docStart = token.found,
                 !.contents = composeNode(token),
                 !.comment = token.endComment,
                 !.range = <<p - 1, p, p>>],
      errors |-> reported]

----------------------------------------------------------------------------
(* Composer.decorate(doc, afterDoc), given the composer's prelude, errors   *)
(* and warnings: the decorated document and the composer's lists after it. *)

\* a variant that overwrites the document's comment
trailingComment_Replaces(dc, comment) == comment

\* doc.comment ? `${doc.comment}\n${comment}` : comment
trailingComment(dc, comment) ==
  IF Truthy(dc) THEN dc \o NL \o comment ELSE comment

\* a variant that does not look at the start marker
commentToDocument_IgnoresMarker(afterEmptyLine, docStart, noContents) ==
  afterEmptyLine \/ noContents

\* else if (afterEmptyLine || doc.directives.docStart || !dc)
commentToDocument(afterEmptyLine, docStart, noContents) ==
  afterEmptyLine \/ docStart \/ noContents

decorateComment(d, afterDoc, pre) ==
  LET pp == parsePrelude(pre)
      comment == pp.comment
      dc == d.contents
  IN IF ~Truthy(comment) THEN d
     ELSE IF afterDoc
     THEN [d EXCEPT !.comment = trailingComment(d.comment, comment)]
     ELSE IF commentToDocument(pp.afterEmptyLine, d.docStart, dc.isNull)
     THEN [d EXCEPT !.commentBefore = comment]
     ELSE IF dc.isCollection /\ ~dc.flow /\ dc.nitems > 0
     THEN [d EXCEPT !.contents.firstCommentBefore =
             IF Truthy(dc.firstCommentBefore)
             THEN comment \o NL \o dc.firstCommentBefore ELSE comment]
     ELSE [d EXCEPT !.contents.commentBefore =
             IF Truthy(dc.commentBefore)
             THEN comment \o NL \o dc.commentBefore ELSE comment]

\* a variant that overwrites the document's list
pushed_Replaces(own, pending) == pending

\* Array.prototype.push.apply(doc.errors, this.errors), and the warnings
pushed(own, pending) == own \o pending

decorateDiagnostics(d, afterDoc, errs, warns) ==
  IF afterDoc
  THEN [d EXCEPT !.errors = pushed(d.errors, errs),
                 !.warnings = pushed(d.warnings, warns)]
  ELSE [d EXCEPT !.errors = errs, !.warnings = warns]

\* a variant that leaves the prelude as it is
drainedPrelude_Kept(pre) == pre

\* this.prelude = []
drainedPrelude(pre) == <<>>

\* a variant that leaves the stream-level list as it is
drainedDiagnostics_Kept(list) == list

\* this.errors = [], this.warnings = []
drainedDiagnostics(list) == <<>>

decorate(d, afterDoc, pre, errs, warns) ==
  [doc |-> decorateDiagnostics(decorateComment(d, afterDoc, pre), afterDoc, errs, warns),
   prelude |-> drainedPrelude(pre), errors |-> drainedDiagnostics(errs),
   warnings |-> drainedDiagnostics(warns)]

\* Composer.streamInfo()
streamInfo ==
  [comment |-> parsePrelude(prelude).comment, directives |-> directives,
   errors |-> errors, warnings |-> warnings]

----------------------------------------------------------------------------
(* The composer: construction, next(token), end(forceDoc, endOffset) *)

\* number of tokens passed to next() so far
ntokens == Len(stream)

InitComposer ==
  /\ directives = <<>>
  /\ doc = 0
  /\ atDirectives = FALSE
  /\ prelude = <<>>
  /\ errors = <<>>
  /\ warnings = <<>>
  /\ docs = <<>>
  /\ yielded = <<>>
  /\ yieldedAs = <<>>
  /\ stream = <<>>
  /\ last = [call |-> "new"]
  /\ ended = FALSE

\* bookkeeping common to every next(token) call
Fed(token) ==
  /\ stream' = Append(stream, token)
  /\ last' = [call |-> "next"]
  /\ UNCHANGED ended

NextDirective(token) ==
  LET p == ntokens + 1 IN
  /\ token.type = "directive"
  /\ directives' = Append(directives, token.source)
  /\ errors' = IF token.bad = "error"
               THEN Append(errors, YAMLParseError(getErrorPos(p), "BAD_DIRECTIVE", "directive"))
               ELSE errors
  /\ warnings' = IF token.bad = "warning"
                 THEN Append(warnings, YAMLWarning(getErrorPos(p), "BAD_DIRECTIVE", "directive"))
                 ELSE warnings
  /\ prelude' = Append(prelude, token.source)
  /\ atDirectives' = TRUE
  /\ UNCHANGED <<doc, docs, yielded, yieldedAs>>
  /\ Fed(token)

\* a variant that reports the missing indicator without looking at atDirectives
missingIndicator_IgnoresDirectives(d) == ~d.docStart

\* if (this.atDirectives && !doc.directives.docStart)
missingIndicator(d) == atDirectives /\ ~d.docStart

\* a variant that drops a buffered document that has errors
yieldBuffered_DropsFailed ==
  IF doc # 0 /\ docs[doc].errors = <<>> THEN <<doc>> ELSE <<>>

\* if (this.doc) yield this.doc
yieldBuffered == IF doc # 0 THEN <<doc>> ELSE <<>>

\* a variant that leaves the flag as it is
atDirectivesAfterDocument_Kept == atDirectives

\* this.atDirectives = false
atDirectivesAfterDocument == FALSE

NextDocument(token) ==
  LET p == ntokens + 1
      composed == composeDoc(directives, token, p)
      errs1 == errors \o composed.errors
      errs2 == IF missingIndicator(composed.doc)
               THEN Append(errs1, YAMLParseError(getErrorPos(p), "MISSING_CHAR",
                             "Missing directives-end/doc-start indicator line"))
               ELSE errs1
      dec == decorate(composed.doc, FALSE, prelude, errs2, warnings)
  IN
  /\ token.type = "document"
  /\ docs' = Append(docs, dec.doc)
  /\ prelude' = dec.prelude
  /\ errors' = dec.errors
  /\ warnings' = dec.warnings
  /\ yielded' = yielded \o yieldBuffered
  /\ yieldedAs' = yieldedAs \o [i \in 1..Len(yieldBuffered) |-> docs[yieldBuffered[i]]]
  /\ doc' = Len(docs) + 1
  /\ atDirectives' = atDirectivesAfterDocument
  /\ UNCHANGED directives
  /\ Fed(token)

NextIgnored(token) ==
  /\ token.type \in {"byte-order-mark", "space"}
  /\ UNCHANGED <<directives, doc, atDirectives, prelude, errors, warnings,
                 docs, yielded, yieldedAs>>
  /\ Fed(token)

NextPrelude(token) ==
  /\ token.type \in {"comment", "newline"}
  /\ prelude' = Append(prelude, token.source)
  /\ UNCHANGED <<directives, doc, atDirectives, errors, warnings,
                 docs, yielded, yieldedAs>>
  /\ Fed(token)

\* if (this.atDirectives || !this.doc)
errorToStream == atDirectives \/ doc = 0

\* a variant that takes the document yielded last, if there is one
errorTarget_LastYielded == IF yielded = <<>> THEN doc ELSE yielded[Len(yielded)]

\* this.doc of this.doc.errors.push(error)
errorTarget == doc

NextError(token) ==
  LET p == ntokens + 1
      msg == IF Truthy(token.source) THEN <<token.message, token.source>>
             ELSE <<token.message>>
      error == YAMLParseError(getErrorPos(p), "UNEXPECTED_TOKEN", msg)
  IN
  /\ token.type = "error"
  /\ IF errorToStream
     THEN /\ errors' = Append(errors, error)
          /\ UNCHANGED docs
     ELSE /\ docs' = [docs EXCEPT ![errorTarget].errors = Append(@, error)]
          /\ UNCHANGED errors
  /\ UNCHANGED <<directives, doc, atDirectives, prelude, warnings,
                 yielded, yieldedAs>>
  /\ Fed(token)

\* if (!this.doc)
strayDocEnd == doc = 0

\* a variant that ignores a stray doc-end silently
strayDocEndError_Silent(p) == <<>>

\* the error pushed for a doc-end token without a buffered document
strayDocEndError(p) ==
  <<YAMLParseError(getErrorPos(p), "UNEXPECTED_TOKEN",
                   "Unexpected doc-end without preceding document")>>

\* a variant that forgets to mark the explicit document end
markDocEnd_Forgets(d) == d

\* this.doc.directives.docEnd = true
markDocEnd(d) == [d EXCEPT !.docEnd = TRUE]

NextDocEnd(token) ==
  LET p == ntokens + 1 IN
  /\ token.type = "doc-end"
  /\ IF strayDocEnd
     THEN /\ errors' = errors \o strayDocEndError(p)
          /\ UNCHANGED <<docs, prelude, warnings>>
     ELSE LET d1 == markDocEnd(docs[doc])
              errs1 == IF token.endError
                       THEN Append(errors, YAMLParseError(getErrorPos(p), "BAD_END", "end"))
                       ELSE errors
              dec == decorate(d1, TRUE, prelude, errs1, warnings)
              dc == dec.doc.comment
              d2 == IF Truthy(token.endComment)
                    THEN [dec.doc EXCEPT !.comment =
                            IF Truthy(dc) THEN dc \o NL \o token.endComment
                            ELSE token.endComment]
                    ELSE dec.doc
              d3 == [d2 EXCEPT !.range[3] = p]
          IN /\ docs' = [docs EXCEPT ![doc] = d3]
             /\ prelude' = dec.prelude
             /\ errors' = dec.errors
             /\ warnings' = dec.warnings
  /\ UNCHANGED <<directives, doc, atDirectives, yielded, yieldedAs>>
  /\ Fed(token)

NextOther(token) ==
  LET p == ntokens + 1 IN
  /\ token.type \notin {"directive", "document", "byte-order-mark", "space",
                        "comment", "newline", "error", "doc-end"}
  /\ errors' = Append(errors,
        YAMLParseError(getErrorPos(p), "UNEXPECTED_TOKEN",
                       <<"Unsupported token", token.type>>))
  /\ UNCHANGED <<directives, doc, atDirectives, prelude, warnings,
                 docs, yielded, yieldedAs>>
  /\ Fed(token)

\* Composer.end(forceDoc, endOffset)
End(forceDoc, endOffset) ==
  /\ IF doc # 0
     THEN LET dec == decorate(docs[doc], TRUE, prelude, errors, warnings) IN
          /\ docs' = [docs EXCEPT ![doc] = dec.doc]
          /\ yielded' = Append(yielded, doc)
          /\ yieldedAs' = Append(yieldedAs, dec.doc)
          /\ doc' = 0
          /\ prelude' = dec.prelude
          /\ errors' = dec.errors
          /\ warnings' = dec.warnings
     ELSE IF forceDoc
     THEN LET d0 == NewDocument(0, directives)
              errs1 == IF atDirectives
                       THEN Append(errors, YAMLParseError(endOffset, "MISSING_CHAR",
                                     "Missing directives-end indicator line"))
                       ELSE errors
              d1 == [d0 EXCEPT !.range = <<0, endOffset, endOffset>>]
              dec == decorate(d1, FALSE, prelude, errs1, warnings)
          IN /\ docs' = Append(docs, dec.doc)
             /\ yielded' = Append(yielded, Len(docs) + 1)
             /\ yieldedAs' = Append(yieldedAs, dec.doc)
             /\ prelude' = dec.prelude
             /\ errors' = dec.errors
             /\ warnings' = dec.warnings
             /\ UNCHANGED doc
     ELSE UNCHANGED <<doc, docs, yielded, yieldedAs, prelude, errors, warnings>>
  /\ ended' = TRUE
  /\ last' = [call |-> "end", forceDoc |-> forceDoc, endOffset |-> endOffset]
  /\ UNCHANGED <<directives, atDirectives, stream>>

----------------------------------------------------------------------------
(* CST trees.  An item is a record [key, value] of tokens; a token is      *)
(* absent, a scalar or a collection holding a list of items.  Items are    *)
(* numbered 1..n in depth-first order, the root being item 1.              *)

NoToken == [kind |-> "none", items |-> <<>>]
ScalarToken == [kind |-> "scalar", items |-> <<>>]
Collection(items) == [kind |-> "collection", items |-> items]

\* token && 'items' in token
hasItems(token) == token.kind = "collection"

RECURSIVE SortedSeq(_)
SortedSeq(S) ==
  IF S = {} THEN <<>>
  ELSE LET m == CHOOSE x \in S : \A y \in S : x <= y
       IN <<m>> \o SortedSeq(S \ {m})

\* the tree of n items in which item i > 1 is appended to the collection
\* shape[i].field of item shape[i].parent
MkTree(n, shape) ==
  [x \in 1..n |->
     LET kids(f) == SortedSeq({i \in 2..n : shape[i].parent = x /\ shape[i].field = f})
     IN [key |-> IF kids("key") = <<>> THEN NoToken ELSE Collection(kids("key")),
         value |-> IF kids("value") = <<>> THEN ScalarToken ELSE Collection(kids("value"))]]

RECURSIVE Preorder(_, _), PreorderAll(_, _)
\* the items of the subtree of item x in depth-first order, key items first
Preorder(t, x) ==
  <<x>> \o PreorderAll(t, t[x].key.items) \o PreorderAll(t, t[x].value.items)
PreorderAll(t, items) ==
  IF items = <<>> THEN <<>>
  ELSE Preorder(t, Head(items)) \o PreorderAll(t, Tail(items))

Trees ==
  UNION {
    {MkTree(n, shape) :
       shape \in {sh \in [2..n -> [parent : 1..n, field : {"key", "value"}]] :
                    /\ \A i \in 2..n : sh[i].parent < i
                    /\ Preorder(MkTree(n, sh), 1) = [i \in 1..n |-> i]}} :
    n \in 1..MaxItems}

----------------------------------------------------------------------------
(* The values a visitor returns *)

Undefined == [t |-> "undefined"]
BREAK == [t |-> "symbol", s |-> "break visit"]
SKIP == [t |-> "symbol", s |-> "skip children"]
REMOVE == [t |-> "symbol", s |-> "remove item"]
Number(n) == [t |-> "number", n |-> n]
Function(f) == [t |-> "function", f |-> f]

\* the visitor handed to visit, and the functions a visitor may return
Visitor == "visitor"
Continuations == {"F", "G"}

Returns ==
  {Undefined, BREAK, SKIP, REMOVE} \cup {Function(f) : f \in Continuations}

\* the indexes a visitor may return: every index of an item list, and one
\* that is past the end of every list
Numbers == {Number(n) : n \in 0..(MaxItems - 1)}

ReturnsNum == {Undefined, Function("F")} \cup Numbers

\* Largest number of calls of a traversal with index returns that return
\* something other than undefined.
MaxNumeric == MaxSpecial - 1

----------------------------------------------------------------------------
(* visit.itemAtPath and visit.parentCollection.  A path is a sequence of   *)
(* <<field, index>> steps; 0 stands for an undefined item.                 *)

RECURSIVE itemAtPathFrom(_, _, _, _)
itemAtPathFrom(t, item, path, k) ==
  IF k > Len(path) THEN item
  ELSE LET field == path[k][1]
           index == path[k][2]
           tok == IF item = 0 THEN NoToken ELSE t[item][field]
       IN IF hasItems(tok)
          THEN itemAtPathFrom(t,
                 IF index + 1 \in 1..Len(tok.items) THEN tok.items[index + 1] ELSE 0,
                 path, k + 1)
          ELSE 0

itemAtPath(t, path) == itemAtPathFrom(t, 1, path, 1)

\* a variant that forgets to drop the last step
sliceLast_Whole(path) == path

\* path.slice(0, -1)
sliceLast(path) == IF path = <<>> THEN <<>> ELSE SubSeq(path, 1, Len(path) - 1)

\* the collection returned, identified by the item and the field holding it,
\* or the error thrown: path[path.length - 1][0] of an empty path is a
\* TypeError (path[-1] is undefined)
parentCollection(t, path) ==
  LET parent == itemAtPath(t, sliceLast(path)) IN
  IF path = <<>> THEN [kind |-> "TypeError"]
  ELSE LET field == path[Len(path)][1]
           coll == IF parent = 0 THEN NoToken ELSE t[parent][field]
       IN IF hasItems(coll)
          THEN [kind |-> "collection", item |-> parent, field |-> field]
          ELSE [kind |-> "Error", message |-> "Parent collection not found"]

----------------------------------------------------------------------------
(* _visit.  A frame is one activation of _visit: its item and path, ctrl,   *)
(* the field and index of its loops, and where it stands:                  *)
(*   "entry"  visitor(item, path) is about to be called (line 91)          *)
(*   "loop"   in the loop over the items of item[field] (lines 93-108)     *)
(*   "key"    ctrl(item, path) is about to be called after the key (109)   *)
(*   "exit"   ctrl(item, path) is about to be called at the exit (112)     *)
(* act numbers the activation (the position of its entry call in calls),   *)
(* parent is the activation that called it.                                *)

\* a variant that walks the value before the key
Fields_ValueFirst == <<"value", "key">>

\* for (const field of ['key', 'value'])
Fields == <<"key", "value">>

Frame(item, path, parent, act) ==
  [item |-> item, path |-> path, parent |-> parent, act |-> act,
   ctrl |-> Undefined, fieldIx |-> 1, i |-> 0, pc |-> "entry"]

Top(stk) == stk[Len(stk)]
Pop(stk) == SubSeq(stk, 1, Len(stk) - 1)
SetTop(stk, frame) == [stk EXCEPT ![Len(stk)] = frame]

\* a variant that leaves the item in the list
splice_Keeps(items, i) == items

\* token.items.splice(i, 1), i counted from 0
splice(items, i) ==
  [k \in 1..(Len(items) - 1) |-> IF k <= i THEN items[k] ELSE items[k + 1]]

\* a variant that never calls the continuation after the key
callsAfterKey_Never(ctrl, field) == FALSE

\* if (typeof ctrl === 'function' && field === 'key')
callsAfterKey(ctrl, field) == ctrl.t = "function" /\ field = "key"

\* a variant that forgets to step the cursor back
cursorAfterRemove_Stays(i) == i

\* the cursor after token.items.splice(i, 1): i -= 1
cursorAfterRemove(i) == i - 1

\* else if (ci === BREAK) return BREAK
childBreaks(ci) == ci = BREAK

\* a variant that forgets the loop's ++i
cursorAfterNumber_NoStep(n) == n

\* the cursor after a child returned the number n: i = ci - 1
cursorAfterNumber(n) == n - 1

\* a variant that counts the index of the step from 1
childPath_FromOne(path, field, i) == Append(path, <<field, i + 1>>)

\* the path of the item at index i of item[field]: path.concat([[field, i]])
childPath(path, field, i) == Append(path, <<field, i>>)

RECURSIVE advance(_, _, _), return(_, _, _, _), endField(_, _, _)
\* Run the frame on top of the stack up to the next visitor call, or to the
\* return of the root's _visit.  ncalls is the number of calls made so far.
advance(stk, t, ncalls) ==
  LET top == Top(stk)
      field == Fields[top.fieldIx]
      token == t[top.item][field]
  IN IF top.pc # "loop"
     THEN [stack |-> stk, tree |-> t, done |-> FALSE, returned |-> Undefined]
     ELSE IF hasItems(token) /\ top.i < Len(token.items)
     THEN [stack |-> Append(stk, Frame(token.items[top.i + 1],
                                       childPath(top.path, field, top.i),
                                       top.act, ncalls + 1)),
           tree |-> t, done |-> FALSE, returned |-> Undefined]
     ELSE IF hasItems(token) /\ callsAfterKey(top.ctrl, field)
     THEN [stack |-> SetTop(stk, [top EXCEPT !.pc = "key"]), tree |-> t,
           done |-> FALSE, returned |-> Undefined]
     ELSE endField(stk, t, ncalls)

\* The frame on top of the stack is through with a field: the next field,
\* or the exit of the item (line 112).
endField(stk, t, ncalls) ==
  LET top == Top(stk)
  IN IF top.fieldIx < Len(Fields)
     THEN advance(SetTop(stk, [top EXCEPT !.fieldIx = @ + 1, !.i = 0]), t, ncalls)
     ELSE IF top.ctrl.t = "function"
     THEN [stack |-> SetTop(stk, [top EXCEPT !.pc = "exit"]), tree |-> t,
           done |-> FALSE, returned |-> Undefined]
     ELSE return(Pop(stk), t, ncalls, top.ctrl)

\* The activation above stk has returned ci to the frame on top of stk
\* (lines 102-107, then ++i), or to visit when stk is empty.
return(stk, t, ncalls, ci) ==
  IF stk = <<>>
  THEN [stack |-> stk, tree |-> t, done |-> TRUE, returned |-> ci]
  ELSE
    LET top == Top(stk)
        field == Fields[top.fieldIx]
    IN IF ci.t = "number"
       THEN advance(SetTop(stk, [top EXCEPT !.i = cursorAfterNumber(ci.n) + 1]), t, ncalls)
       ELSE IF childBreaks(ci)
       THEN return(Pop(stk), t, ncalls, BREAK)
       ELSE IF ci = REMOVE
       THEN advance(SetTop(stk, [top EXCEPT !.i = cursorAfterRemove(top.i) + 1]),
                    [t EXCEPT ![top.item][field].items = splice(@, top.i)],
                    ncalls)
       ELSE advance(SetTop(stk, [top EXCEPT !.i = @ + 1]), t, ncalls)

----------------------------------------------------------------------------
(* visit(cst, visitor) *)

InitVisit ==
  /\ tree = <<>>
  /\ tree0 = <<>>
  /\ rootType = "none"
  /\ stack = <<>>
  /\ calls = <<>>
  /\ vstate = "idle"
  /\ returned = Undefined
  /\ lookup = [pc |-> "idle"]

\* the calls so far that returned something other than undefined
Special == {k \in 1..Len(calls) : calls[k].ret # Undefined}

MayReturn(ret) == ret = Undefined \/ Cardinality(Special) < MaxSpecial

Called(fn, stage, ret) ==
  LET top == Top(stack) IN
  [fn |-> fn, stage |-> stage, item |-> top.item, path |-> top.path,
   act |-> top.act, parent |-> top.parent, ret |-> ret]

Continue(cfg) ==
  /\ stack' = cfg.stack
  /\ tree' = cfg.tree
  /\ vstate' = IF cfg.done THEN "done" ELSE "running"
  /\ returned' = cfg.returned
  /\ UNCHANGED <<tree0, rootType, lookup>>

\* visit(cst, visitor): a document root is replaced by an item holding its
\* start and value (the item shares the document's value token, and stands
\* for the document here), then _visit([], cst, visitor)
Visit(t, type) ==
  /\ vstate = "idle"
  /\ type = "document" => t[1].key = NoToken
  /\ tree' = t
  /\ tree0' = t
  /\ rootType' = type
  /\ stack' = <<Frame(1, <<>>, 0, 1)>>
  /\ vstate' = "running"
  /\ UNCHANGED <<calls, returned, lookup>>

\* The objects that a caller of visit holds or is handed: the items of the
\* tree, the document given to visit, and the item that visit makes of it.
ItemObject(x) == [obj |-> "item", id |-> x]
DocumentObject == [obj |-> "document", id |-> 1]

\* cst = { start: cst.start, value: cst.value }: a new object, whose value
\* is the value token of the document
DocumentItem == [obj |-> "item of document", id |-> 1]

\* the cst that visit hands to _visit
visitRoot(type) == IF type = "document" THEN DocumentItem ELSE ItemObject(1)

\* the item that _visit hands to the visitor, and to the children of that
\* item through token.items[i]
handedItem(type, item, path) ==
  IF path = <<>> THEN visitRoot(type) ELSE ItemObject(item)

\* visit.itemAtPath(cst, path) on the cst that was given to visit: the cst
\* itself for the empty path, for a document too
itemAtPathOf(type, t, path) ==
  IF path # <<>> THEN ItemObject(itemAtPath(t, path))
  ELSE IF type = "document" THEN DocumentObject ELSE ItemObject(1)

\* let ctrl = visitor(item, path); if (typeof ctrl === 'symbol') return ctrl
visitorAtEntry(ret) ==
  /\ vstate = "running"
  /\ Top(stack).pc = "entry"
  /\ calls' = Append(calls, Called(Visitor, "entry", ret))
  /\ Continue(IF ret.t = "symbol"
              THEN return(Pop(stack), tree, Len(calls) + 1, ret)
              ELSE advance(SetTop(stack, [Top(stack) EXCEPT !.ctrl = ret, !.pc = "loop"]),
                           tree, Len(calls) + 1))

\* if (typeof ctrl === 'function' && field === 'key') ctrl = ctrl(item, path)
ctrlAfterKey(ret) ==
  /\ vstate = "running"
  /\ Top(stack).pc = "key"
  /\ calls' = Append(calls, Called(Top(stack).ctrl.f, "key", ret))
  /\ Continue(endField(SetTop(stack, [Top(stack) EXCEPT
                                       !.ctrl = ret, !.pc = "loop"]),
                       tree, Len(calls) + 1))

\* return typeof ctrl === 'function' ? ctrl(item, path) : ctrl
ctrlAtExit(ret) ==
  /\ vstate = "running"
  /\ Top(stack).pc = "exit"
  /\ calls' = Append(calls, Called(Top(stack).ctrl.f, "exit", ret))
  /\ Continue(return(Pop(stack), tree, Len(calls) + 1, ret))

\* the three calls, with a visitor that returns something other than
\* undefined at most MaxSpecial times
CallEntry(ret) == MayReturn(ret) /\ visitorAtEntry(ret)

CallAfterKey(ret) == MayReturn(ret) /\ ctrlAfterKey(ret)

CallExit(ret) == MayReturn(ret) /\ ctrlAtExit(ret)

----------------------------------------------------------------------------
(* A lookup: a root and a path are chosen, then itemAtPath(root, path) and, *)
(* immediately after it, parentCollection(root, path) are called.  A path  *)
(* is extended only while it addresses an item: itemAtPath is undefined    *)
(* for every path with a prefix that addresses none.                       *)

Steps == {"key", "value"} \X (0..(MaxItems - 1))

LookupRoot(t) ==
  /\ lookup.pc = "idle"
  /\ tree' = t
  /\ lookup' = [pc |-> "path", path |-> <<>>]
  /\ UNCHANGED <<tree0, rootType, stack, calls, vstate, returned>>

LookupStep(step) ==
  /\ lookup.pc = "path"
  /\ itemAtPath(tree, lookup.path) # 0
  /\ lookup' = [lookup EXCEPT !.path = Append(@, step)]
  /\ UNCHANGED <<tree, tree0, rootType, stack, calls, vstate, returned>>

LookupItemAtPath ==
  /\ lookup.pc = "path"
  /\ lookup' = [pc |-> "item", path |-> lookup.path,
                item |-> itemAtPath(tree, lookup.path)]
  /\ UNCHANGED <<tree, tree0, rootType, stack, calls, vstate, returned>>

LookupParentCollection ==
  /\ lookup.pc = "item"
  /\ lookup' = [pc |-> "done", path |-> lookup.path, item |-> lookup.item,
                coll |-> parentCollection(tree, lookup.path)]
  /\ UNCHANGED <<tree, tree0, rootType, stack, calls, vstate, returned>>

----------------------------------------------------------------------------
(* Specifications *)

\* Composer.compose(tokens, forceDoc, endOffset): next() for each token of a
\* finite stream, then end()
CanFeed == ~ended /\ ntokens < MaxTokens

Init == InitComposer /\ InitVisit

Next ==
  \/ \E token \in Tokens : CanFeed /\ NextDirective(token) /\ UNCHANGED vvars
  \/ \E token \in Tokens : CanFeed /\ NextDocument(token) /\ UNCHANGED vvars
  \/ \E token \in Tokens : CanFeed /\ NextIgnored(token) /\ UNCHANGED vvars
  \/ \E token \in Tokens : CanFeed /\ NextPrelude(token) /\ UNCHANGED vvars
  \/ \E token \in Tokens : CanFeed /\ NextError(token) /\ UNCHANGED vvars
  \/ \E token \in Tokens : CanFeed /\ NextDocEnd(token) /\ UNCHANGED vvars
  \/ \E token \in Tokens : CanFeed /\ NextOther(token) /\ UNCHANGED vvars
  \/ \E forceDoc \in BOOLEAN, endOffset \in {-1, ntokens} :
       ~ended /\ End(forceDoc, endOffset) /\ UNCHANGED vvars

Spec == Init /\ [][Next]_vars

\* visit(cst, visitor) on a tree of at most MaxItems items, with a visitor
\* that returns undefined, a control symbol or a function
NextVisit ==
  \/ \E t \in Trees, type \in {"document", "item"} :
       Visit(t, type) /\ UNCHANGED cvars
  \/ \E ret \in Returns : CallEntry(ret) /\ UNCHANGED cvars
  \/ \E ret \in Returns : CallAfterKey(ret) /\ UNCHANGED cvars
  \/ \E ret \in Returns : CallExit(ret) /\ UNCHANGED cvars

SpecVisit == Init /\ [][NextVisit]_vars

MayReturnNum(ret) == ret = Undefined \/ Cardinality(Special) < MaxNumeric

\* visit(cst, visitor) with a visitor that returns undefined, a function or
\* an index
NextVisitNum ==
  \/ \E t \in Trees, type \in {"document", "item"} :
       Visit(t, type) /\ UNCHANGED cvars
  \/ \E ret \in ReturnsNum : MayReturnNum(ret) /\ CallEntry(ret) /\ UNCHANGED cvars
  \/ \E ret \in ReturnsNum : MayReturnNum(ret) /\ CallAfterKey(ret) /\ UNCHANGED cvars
  \/ \E ret \in ReturnsNum : MayReturnNum(ret) /\ CallExit(ret) /\ UNCHANGED cvars

SpecVisitNum == Init /\ [][NextVisitNum]_vars

\* Largest number of items of a tree whose traversal is followed to its end
\* whatever the visitor returns.
MaxRunItems == 3

RunTrees == {t \in Trees : Len(t) <= MaxRunItems}

\* the visitor returns undefined, a control symbol or one function
RunReturns == {Undefined, BREAK, SKIP, REMOVE, Function("F")}

\* Largest number of visitor calls that are followed: three calls for every
\* item of the tree.
MaxCalls == 3 * MaxRunItems

\* a call has returned an index
NumberReturned == \E k \in 1..Len(calls) : calls[k].ret.t = "number"

\* the visitor has returned undefined or an index so far, and returns an
\* index not greater than the index of the item it is called for
keepsIndex(ret) ==
  /\ \A k \in 1..Len(calls) : calls[k].ret = Undefined \/ calls[k].ret.t = "number"
  /\ Top(stack).path # <<>>
  /\ ret.n <= Top(stack).path[Len(Top(stack).path)][2]

\* the visitor calls of _visit, with a visitor that returns undefined, a
\* control symbol or a function any number of times, or one that returns
\* undefined at first and then keeps returning indexes
VisitorCall ==
  \/ \E ret \in RunReturns :
       Len(calls) < MaxCalls /\ ~NumberReturned /\ visitorAtEntry(ret) /\ UNCHANGED cvars
  \/ \E ret \in RunReturns :
       Len(calls) < MaxCalls /\ ~NumberReturned /\ ctrlAfterKey(ret) /\ UNCHANGED cvars
  \/ \E ret \in RunReturns :
       Len(calls) < MaxCalls /\ ~NumberReturned /\ ctrlAtExit(ret) /\ UNCHANGED cvars
  \/ \E ret \in Numbers :
       /\ Len(calls) < MaxCalls /\ vstate = "running" /\ Top(stack).pc = "entry"
       /\ keepsIndex(ret) /\ visitorAtEntry(ret) /\ UNCHANGED cvars

NextVisitAll ==
  \/ \E t \in RunTrees, type \in {"document", "item"} :
       Visit(t, type) /\ UNCHANGED cvars
  \/ VisitorCall

\* The call that is due returns: the visitor, or the continuation held in
\* ctrl, was called with the item and the path of the frame on top of the
\* stack.  Every step of VisitorCall is such a step, and one is possible
\* whenever a call is due and fewer than MaxCalls calls were made.
VisitorReturns ==
  /\ vstate = "running"
  /\ Len(calls) < MaxCalls
  /\ \E ret \in RunReturns \cup Numbers :
       \/ Top(stack).pc = "entry" /\ calls' = Append(calls, Called(Visitor, "entry", ret))
       \/ Top(stack).pc \in {"key", "exit"}
            /\ calls' = Append(calls, Called(Top(stack).ctrl.f, Top(stack).pc, ret))

\* visit(cst, visitor) runs on: _visit is synchronous, and every call of the
\* visitor or of a continuation returns
SpecVisitAll == Init /\ [][NextVisitAll]_vars /\ WF_calls(VisitorReturns)

\* itemAtPath and parentCollection on a tree of at most MaxItems items
NextLookup ==
  \/ \E t \in Trees : LookupRoot(t) /\ UNCHANGED cvars
  \/ \E step \in Steps : LookupStep(step) /\ UNCHANGED cvars
  \/ LookupItemAtPath /\ UNCHANGED cvars
  \/ LookupParentCollection /\ UNCHANGED cvars

SpecLookup == Init /\ [][NextLookup]_vars

----------------------------------------------------------------------------
(* Properties of the composer *)

\* positions in the stream of the tokens of the given type, in stream order
Positions(type) ==
  SelectSeq([i \in 1..Len(stream) |-> i], LAMBDA i : stream[i].type = type)

StreamTypes == [i \in 1..Len(stream) |-> stream[i].type]

\* the step is a call next(token)
IsNext == Len(stream') = Len(stream) + 1

StepToken == stream'[Len(stream')]

MissingIndicatorMessage == "Missing directives-end/doc-start indicator line"

\* the leading comments of a document: its own and those of its contents
Leading(d) ==
  <<d.commentBefore, d.contents.commentBefore, d.contents.firstCommentBefore>>

HasMissingIndicator(d) ==
  \E i \in 1..Len(d.errors) :
    d.errors[i].code = "MISSING_CHAR" /\ d.errors[i].message = MissingIndicatorMessage

\* C1: once a finite stream has been consumed through compose (every next()
\* and the final end() has run), the yielded documents are, in order, exactly
\* the documents composed from the stream's 'document' tokens, whatever other
\* tokens are interleaved; with no document token, one document is yielded
\* when forceDoc is set and none otherwise.
C1_DocumentsMatchDocumentTokens ==
  ended =>
    LET D == Positions("document") IN
    IF Len(D) > 0
    THEN [i \in 1..Len(yielded) |-> docs[yielded[i]].tok] = D
    ELSE Len(yielded) = (IF last.forceDoc THEN 1 ELSE 0)

C1_Witness ==
  /\ ended
  /\ Len(Positions("document")) = 2
  /\ Len(Positions("error")) = 1
  /\ Len(yielded) = 2

\* C2: next(token) yields only on a 'document' token that finds a document
\* buffered, and then yields that buffered document, not the one just
\* composed; the first document token yields nothing.  A doc-end token that
\* follows a document token therefore finds the document of the latest
\* document token still buffered and unemitted, and sets its explicit-end flag
\* and its range end.
C2_BuffersOneDocumentAhead ==
  [][IsNext =>
       /\ yielded' # yielded =>
            /\ StepToken.type = "document"
            /\ doc # 0
            /\ yielded' = Append(yielded, doc)
            /\ doc' = Len(docs') /\ doc' # doc
            /\ docs'[doc'].tok = Len(stream')
       /\ (StepToken.type = "document" /\ Positions("document") = <<>>) =>
            yielded' = yielded
       /\ (StepToken.type = "doc-end" /\ Positions("document") # <<>>) =>
            LET D == Positions("document")[Len(Positions("document"))] IN
            /\ doc # 0 /\ doc' = doc
            /\ docs[doc].tok = D
            /\ \A i \in 1..Len(yielded') : yielded'[i] # doc
            /\ docs'[doc].docEnd
            /\ docs'[doc].range[3] = Len(stream')
  ]_cvars

C2_Witness ==
  /\ StreamTypes = <<"document", "doc-end", "document">>
  /\ yielded = <<1>>
  /\ yieldedAs[1].docEnd /\ yieldedAs[1].range[3] = 2
  /\ doc = 2

\* C3 as stated: after [directive, document, document] and end(), two
\* documents are yielded in input order and the second one carries the
\* missing-indicator error if it has no explicit start marker.
C3_ErrorOnSecondDocument ==
  (ended /\ StreamTypes = <<"directive", "document", "document">>) =>
    /\ Len(yielded) = 2
    /\ docs[yielded[1]].tok = 2 /\ docs[yielded[2]].tok = 3
    /\ ~docs[yielded[2]].docStart => HasMissingIndicator(docs[yielded[2]])

\* C3 amended: after [directive, document, document] and end(), two documents
\* are yielded in input order; the missing-indicator error is reported for the
\* first document (the one that follows the directive) exactly if it has no
\* explicit start marker, and never for the second.
C3_ErrorOnFirstDocument ==
  (ended /\ StreamTypes = <<"directive", "document", "document">>) =>
    /\ Len(yielded) = 2
    /\ docs[yielded[1]].tok = 2 /\ docs[yielded[2]].tok = 3
    /\ HasMissingIndicator(docs[yielded[1]]) <=> ~stream[2].found
    /\ ~HasMissingIndicator(docs[yielded[2]])
    /\ \A i \in 1..Len(errors) : errors[i].code # "MISSING_CHAR"

C3_Witness ==
  /\ ended
  /\ StreamTypes = <<"directive", "document", "document">>
  /\ ~stream[2].found /\ ~stream[3].found
  /\ Len(yielded) = 2

\* C4: a doc-end token processed while no document is buffered appends exactly
\* one UNEXPECTED_TOKEN stray-marker error to the stream-level error list,
\* yields nothing, leaves the buffer empty and composes no document, and
\* leaves prelude, atDirectives, directives and the warnings unchanged.
C4_StrayDocEnd ==
  [][(IsNext /\ StepToken.type = "doc-end" /\ doc = 0) =>
       /\ Len(errors') = Len(errors) + 1
       /\ SubSeq(errors', 1, Len(errors)) = errors
       /\ errors'[Len(errors')].code = "UNEXPECTED_TOKEN"
       /\ errors'[Len(errors')].message = "Unexpected doc-end without preceding document"
       /\ errors'[Len(errors')].pos = Len(stream)
       /\ yielded' = yielded
       /\ doc' = 0 /\ docs' = docs
       /\ UNCHANGED <<prelude, atDirectives, directives, warnings>>
  ]_cvars

C4_Witness ==
  /\ StreamTypes = <<"directive", "comment", "doc-end">>
  /\ doc = 0 /\ docs = <<>> /\ yielded = <<>>
  /\ atDirectives /\ Len(prelude) = 2
  /\ errors[Len(errors)].message = "Unexpected doc-end without preceding document"

\* the comment token's text with the '#' marker stripped
MarkerStripped(source) == SubSeq(source, 2, Len(source))

LoneComment == Len(stream) = 1 /\ stream[1].type = "comment"

\* C5 as stated: a lone comment token and end(true, endOffset) yield one
\* document without contents, whose commentBefore is the comment's text with
\* the marker stripped, whose comment is unset and whose range is
\* [0, endOffset, endOffset]; without forceDoc nothing is yielded and
\* streamInfo() still shows the comment.
C5_CommentBeforeIsStrippedText ==
  (ended /\ LoneComment) =>
    IF last.forceDoc
    THEN /\ Len(yielded) = 1
         /\ docs[yielded[1]].contents.isNull
         /\ docs[yielded[1]].commentBefore = MarkerStripped(stream[1].source)
         /\ docs[yielded[1]].comment = EmptyStr
         /\ docs[yielded[1]].range = <<0, last.endOffset, last.endOffset>>
    ELSE /\ yielded = <<>>
         /\ streamInfo.comment # EmptyStr

\* C5 amended: as stated, except that the leading comment of a bare marker
\* (nothing after '#') is a single space rather than the empty text; the same
\* text is what streamInfo() shows when forceDoc is not set.
C5_CommentBeforeIsPaddedText ==
  (ended /\ LoneComment) =>
    LET text == IF Len(stream[1].source) > 1
                THEN MarkerStripped(stream[1].source) ELSE <<" ">>
    IN IF last.forceDoc
       THEN /\ Len(yielded) = 1
            /\ docs[yielded[1]].contents.isNull
            /\ docs[yielded[1]].commentBefore = text
            /\ docs[yielded[1]].comment = EmptyStr
            /\ docs[yielded[1]].range = <<0, last.endOffset, last.endOffset>>
            /\ docs[yielded[1]].contents.commentBefore = EmptyStr
       ELSE /\ yielded = <<>>
            /\ streamInfo.comment = text

C5_Witness ==
  /\ ended /\ LoneComment
  /\ last.forceDoc /\ last.endOffset = 1
  /\ Len(yielded) = 1
  /\ docs[yielded[1]].commentBefore = <<"a">>

\* a directive token has been processed since the last document token
DirectiveSinceDocument ==
  \E j \in 1..Len(stream) :
    /\ stream[j].type = "directive"
    /\ \A k \in j..Len(stream) : stream[k].type # "document"

\* C15: atDirectives is true exactly when a directive token has been
\* processed since the last document token.  On a document token the
\* missing-indicator error is reported exactly when atDirectives is true and
\* the document has no explicit start marker, and it is then in the error
\* list of the document composed from that token and nowhere else.
C15_AtDirectives ==
  /\ [](atDirectives <=> DirectiveSinceDocument)
  /\ [][(IsNext /\ StepToken.type = "document") =>
          LET d == docs'[doc']
              M == {i \in 1..Len(d.errors) :
                      /\ d.errors[i].code = "MISSING_CHAR"
                      /\ d.errors[i].message = MissingIndicatorMessage}
          IN /\ d.tok = Len(stream')
             /\ d.docStart = StepToken.found
             /\ Cardinality(M) = (IF atDirectives /\ ~StepToken.found THEN 1 ELSE 0)
             /\ errors' = <<>>
             /\ \A x \in 1..Len(docs) : docs'[x] = docs[x]
       ]_cvars

C15_Witness ==
  /\ StreamTypes = <<"directive", "document", "directive">>
  /\ atDirectives
  /\ ~stream[2].found
  /\ HasMissingIndicator(docs[1])
  /\ doc = 1

\* a directive token lies before position p with no document token between
AtDirectivesBefore(p) ==
  \E j \in 1..p - 1 :
    /\ stream[j].type = "directive"
    /\ \A k \in j..p - 1 : stream[k].type # "document"

\* the errors that the token at position p makes the composer produce
ErrorsOfToken(p) ==
  LET t == stream[p] IN
  CASE t.type = "directive" ->
         IF t.bad = "error"
         THEN <<YAMLParseError(p - 1, "BAD_DIRECTIVE", "directive")>> ELSE <<>>
    [] t.type = "document" ->
         (IF t.found /\ ~t.hasNewline /\ t.value \in {"block-map", "block-seq"}
          THEN <<YAMLParseError(p - 1, "MISSING_CHAR",
                   "Block collection cannot start on same line with directives-end marker")>>
          ELSE <<>>)
         \o (IF t.nodeError THEN <<YAMLParseError(p - 1, "BAD_NODE", "node")>> ELSE <<>>)
         \o (IF AtDirectivesBefore(p) /\ ~t.found
             THEN <<YAMLParseError(p - 1, "MISSING_CHAR", MissingIndicatorMessage)>>
             ELSE <<>>)
    [] t.type = "error" ->
         <<YAMLParseError(p - 1, "UNEXPECTED_TOKEN", <<t.message, t.source>>)>>
    [] t.type = "doc-end" ->
         IF \A k \in 1..p - 1 : stream[k].type # "document"
         THEN <<YAMLParseError(p - 1, "UNEXPECTED_TOKEN",
                               "Unexpected doc-end without preceding document")>>
         ELSE IF t.endError THEN <<YAMLParseError(p - 1, "BAD_END", "end")>> ELSE <<>>
    [] t.type \in {"byte-order-mark", "space", "comment", "newline"} -> <<>>
    [] OTHER ->
         <<YAMLParseError(p - 1, "UNEXPECTED_TOKEN", <<"Unsupported token", t.type>>)>>

\* the error that end() produces for a forced document after directives
ErrorsOfEnd ==
  IF /\ ended /\ last.forceDoc
     /\ Positions("document") = <<>>
     /\ AtDirectivesBefore(Len(stream) + 1)
  THEN <<YAMLParseError(last.endOffset, "MISSING_CHAR",
                        "Missing directives-end indicator line")>>
  ELSE <<>>

RECURSIVE ErrorsOfTokens(_)
ErrorsOfTokens(n) == IF n = 0 THEN <<>> ELSE ErrorsOfTokens(n - 1) \o ErrorsOfToken(n)

\* the errors produced so far, each once
ProducedErrors == ErrorsOfTokens(Len(stream)) \o ErrorsOfEnd

RECURSIVE WarningsOfTokens(_)
WarningsOfTokens(n) ==
  IF n = 0 THEN <<>>
  ELSE WarningsOfTokens(n - 1)
         \o (IF stream[n].type = "directive" /\ stream[n].bad = "warning"
             THEN <<YAMLWarning(n - 1, "BAD_DIRECTIVE", "directive")>> ELSE <<>>)

\* the warnings produced so far, each once
ProducedWarnings == WarningsOfTokens(Len(stream))

\* number of times diagnostic e is in the list
Count(list, e) ==
  Cardinality({i \in 1..Len(list) :
                 /\ list[i].pos = e.pos
                 /\ list[i].code = e.code
                 /\ list[i].message = e.message})

RECURSIVE Sum(_, _)
\* f[1] + ... + f[n]
Sum(f, n) == IF n = 0 THEN 0 ELSE f[n] + Sum(f, n - 1)

\* every document created is the buffered one or has been yielded, once
Owned ==
  \A d \in 1..Len(docs) :
    Cardinality({i \in 1..Len(yielded) : yielded[i] = d})
      + (IF doc = d THEN 1 ELSE 0) = 1

\* C18: every error and warning produced so far is in exactly one place: the
\* list of one yielded document, of the buffered document, or the
\* stream-level list; the lists hold nothing else.
C18_DiagnosticsConserved ==
  /\ Owned
  /\ \A i \in 1..Len(ProducedErrors) :
       LET e == ProducedErrors[i] IN
       Count(errors, e)
         + Sum([d \in 1..Len(docs) |-> Count(docs[d].errors, e)], Len(docs)) = 1
  /\ Len(errors) + Sum([d \in 1..Len(docs) |-> Len(docs[d].errors)], Len(docs))
       = Len(ProducedErrors)
  /\ \A i \in 1..Len(ProducedWarnings) :
       LET w == ProducedWarnings[i] IN
       Count(warnings, w)
         + Sum([d \in 1..Len(docs) |-> Count(docs[d].warnings, w)], Len(docs)) = 1
  /\ Len(warnings) + Sum([d \in 1..Len(docs) |-> Len(docs[d].warnings)], Len(docs))
       = Len(ProducedWarnings)

\* an error on a yielded document, one on the buffered document and one in
\* the stream-level list
C18_Witness ==
  /\ StreamTypes = <<"document", "document", "directive">>
  /\ yielded = <<1>> /\ doc = 2
  /\ Len(docs[1].errors) = 1 /\ Len(docs[2].errors) = 1 /\ Len(errors) = 1

----------------------------------------------------------------------------
(* Composer.decorate, called a second time on the document that the last   *)
(* call of next() or end() has decorated.                                  *)

\* the document decorated by the last call: by next() for a document token
\* (182) or for a doc-end token that found a document buffered (223), by
\* end() when it emits a document (250, 266); 0 when the last call decorated
\* none
DecoratedLast ==
  IF last.call = "next"
  THEN IF stream[Len(stream)].type \in {"document", "doc-end"} THEN doc ELSE 0
  ELSE IF last.call = "end" /\ (Positions("document") # <<>> \/ last.forceDoc)
  THEN yielded[Len(yielded)]
  ELSE 0

DecorateAgain(afterDoc) ==
  /\ DecoratedLast # 0
  /\ LET id == DecoratedLast
         dec == decorate(docs[id], afterDoc, prelude, errors, warnings)
     IN /\ docs' = [docs EXCEPT ![id] = dec.doc]
        /\ prelude' = dec.prelude
        /\ errors' = dec.errors
        /\ warnings' = dec.warnings
        /\ last' = [call |-> "decorate", afterDoc |-> afterDoc, doc |-> id,
                    before |-> docs[id]]
  /\ UNCHANGED <<directives, doc, atDirectives, yielded, yieldedAs, stream, ended>>

\* next(token)
NextToken(token) ==
  \/ NextDirective(token)
  \/ NextDocument(token)
  \/ NextIgnored(token)
  \/ NextPrelude(token)
  \/ NextError(token)
  \/ NextDocEnd(token)
  \/ NextOther(token)

\* streams of fewer than MaxTokens tokens, then possibly end(), then
\* decorate once more
NextDecorate ==
  \/ \E token \in Tokens :
       /\ ~ended /\ last.call # "decorate" /\ ntokens < MaxTokens - 1
       /\ NextToken(token) /\ UNCHANGED vvars
  \/ \E forceDoc \in BOOLEAN, endOffset \in {-1, ntokens} :
       /\ ~ended /\ last.call # "decorate"
       /\ End(forceDoc, endOffset) /\ UNCHANGED vvars
  \/ \E afterDoc \in BOOLEAN : DecorateAgain(afterDoc) /\ UNCHANGED vvars

SpecDecorate == Init /\ [][NextDecorate]_vars

\* C12 as stated: a second decorate on the same document, for either value
\* of afterContent, changes nothing: the document and the composer's prelude
\* and stream-level lists are as the first call left them.
C12_SecondDecorateChangesNothing ==
  last.call = "decorate" =>
    /\ docs[last.doc] = last.before
    /\ prelude = <<>> /\ errors = <<>> /\ warnings = <<>>

\* C12 amended: a second decorate on the same document leaves its comments
\* and the composer's (empty) prelude and stream-level lists as they were;
\* with afterContent true it leaves the document's errors and warnings too,
\* with afterContent false it replaces them by the empty stream-level lists.
C12_SecondDecorateKeepsComments ==
  last.call = "decorate" =>
    /\ prelude = <<>> /\ errors = <<>> /\ warnings = <<>>
    /\ IF last.afterDoc
       THEN docs[last.doc] = last.before
       ELSE docs[last.doc] = [last.before EXCEPT !.errors = <<>>, !.warnings = <<>>]

\* a document that got a leading comment and an error is decorated again
C12_Witness ==
  /\ last.call = "decorate"
  /\ ~last.afterDoc
  /\ last.before.errors # <<>>
  /\ Truthy(last.before.commentBefore)
  /\ docs[last.doc].commentBefore = last.before.commentBefore

\* C19: right after a call that decorated a document (next() for a document
\* token or for a doc-end token that found a document buffered, end() when
\* it emits a document) the prelude and the stream-level error and warning
\* lists are empty, and streamInfo() reports an empty comment and no errors
\* or warnings.
C19_DecorationDrains ==
  DecoratedLast # 0 =>
    /\ prelude = <<>> /\ errors = <<>> /\ warnings = <<>>
    /\ streamInfo.comment = EmptyStr
    /\ streamInfo.errors = <<>> /\ streamInfo.warnings = <<>>

\* end() forces a document that takes a comment, an error and a warning
C19_Witness ==
  /\ ended /\ last.forceDoc
  /\ StreamTypes = <<"comment", "directive", "directive">>
  /\ DecoratedLast = 1
  /\ Truthy(docs[1].commentBefore)
  /\ Len(docs[1].errors) = 2 /\ Len(docs[1].warnings) = 1
  /\ prelude = <<>>

\* the two lists hold the same diagnostics in the same order
SameDiagnostics(l1, l2) ==
  /\ Len(l1) = Len(l2)
  /\ \A i \in 1..Len(l1) :
       /\ l1[i].pos = l2[i].pos
       /\ l1[i].code = l2[i].code
       /\ l1[i].message = l2[i].message

\* C20: a document that has been yielded is as it was when it was yielded:
\* no later token and no end() changes its comment, commentBefore, errors,
\* warnings, range or explicit-end flag.
C20_YieldedDocumentsAreFrozen ==
  /\ Len(yieldedAs) = Len(yielded)
  /\ \A i \in 1..Len(yielded) :
       LET now == docs[yielded[i]]
           then == yieldedAs[i]
       IN /\ now.comment = then.comment
          /\ now.commentBefore = then.commentBefore
          /\ Leading(now) = Leading(then)
          /\ SameDiagnostics(now.errors, then.errors)
          /\ SameDiagnostics(now.warnings, then.warnings)
          /\ now.range = then.range
          /\ now.docEnd = then.docEnd

\* the first document is yielded; an error token then acts on the second
C20_Witness ==
  /\ StreamTypes = <<"document", "document", "error">>
  /\ yielded = <<1>> /\ doc = 2
  /\ docs[1].errors = <<>>
  /\ Len(docs[2].errors) = 1

----------------------------------------------------------------------------
(* Error tokens among directives, documents and doc-end markers: streams    *)
(* two tokens longer than MaxTokens over a smaller alphabet.                *)

TokensErr ==
  {t \in Tokens :
     \/ t.type = "directive" /\ t.bad # "warning"
     \/ t.type = "document" /\ t.hasNewline /\ t.value = "scalar"
     \/ t.type = "error"
     \/ t.type = "doc-end" /\ t.endComment = EmptyStr}

NextErr ==
  \/ \E token \in TokensErr :
       /\ ~ended /\ ntokens < MaxTokens + 2
       /\ NextToken(token) /\ UNCHANGED vvars
  \/ \E forceDoc \in BOOLEAN :
       ~ended /\ End(forceDoc, ntokens) /\ UNCHANGED vvars

SpecErr == Init /\ [][NextErr]_vars

\* the diagnostic recorded for the error token at position p of the stream
ErrorOf(p) ==
  YAMLParseError(p - 1, "UNEXPECTED_TOKEN", <<stream[p].message, stream[p].source>>)

\* the document composed from the document token at position p
DocAt(p) == CHOOSE d \in 1..Len(docs) : docs[d].tok = p

\* C13: an error token is recorded as exactly one UNEXPECTED_TOKEN
\* diagnostic, in the stream-level list when atDirectives is set or no
\* document is buffered and otherwise in the buffered document's own list;
\* nothing is yielded and nothing else changes.  A stream-level error
\* recorded between a directive and the following document token is on that
\* following document and on no other.
C13_ErrorTokenRecordedOnce ==
  /\ [][(IsNext /\ StepToken.type = "error") =>
          LET e == YAMLParseError(Len(stream), "UNEXPECTED_TOKEN",
                                  <<StepToken.message, StepToken.source>>)
          IN /\ IF atDirectives \/ doc = 0
                THEN errors' = Append(errors, e) /\ docs' = docs
                ELSE /\ docs' = [docs EXCEPT ![doc].errors = Append(@, e)]
                     /\ errors' = errors
             /\ UNCHANGED <<yielded, doc, atDirectives, prelude, warnings,
                            directives, ended>>
       ]_cvars
  /\ [](\A i, j, k \in 1..Len(stream) :
          ( /\ j < i /\ i < k
            /\ stream[j].type = "directive"
            /\ stream[i].type = "error"
            /\ stream[k].type = "document"
            /\ \A x \in j..k - 1 : stream[x].type # "document" ) =>
            /\ Count(docs[DocAt(k)].errors, ErrorOf(i)) = 1
            /\ Count(errors, ErrorOf(i)) = 0
            /\ \A d \in 1..Len(docs) :
                 d # DocAt(k) => Count(docs[d].errors, ErrorOf(i)) = 0)

----------------------------------------------------------------------------
(* Comments around documents and doc-end markers: streams two tokens       *)
(* longer than MaxTokens of documents that carry a comment of their own,   *)
(* comments, newlines and doc-end markers.                                 *)

TokensComments ==
  [type : {"document"}, found : {FALSE}, hasNewline : {TRUE},
   value : {"scalar"}, nodeError : {FALSE}, nodeComment : {EmptyStr},
   itemComment : {EmptyStr}, endComment : {EmptyStr, <<"d">>}]
    \cup [type : {"comment"}, source : {<<"#", "a">>, <<"#", "b">>}]
    \cup NewlineTokens
    \cup DocEndTokens

NextComments ==
  \/ \E token \in TokensComments :
       /\ ~ended /\ ntokens < MaxTokens + 2
       /\ NextToken(token) /\ UNCHANGED vvars
  \/ ~ended /\ End(FALSE, -1) /\ UNCHANGED vvars

SpecComments == Init /\ [][NextComments]_vars

\* the position of the last token that made the composer decorate a
\* document: a document token, or a doc-end token after a document token
LastDecoration ==
  LET S == {q \in 1..Len(stream) :
              \/ stream[q].type = "document"
              \/ /\ stream[q].type = "doc-end"
                 /\ \E r \in 1..q : stream[r].type = "document"}
  IN IF S = {} THEN 0 ELSE CHOOSE q \in S : \A r \in S : r <= q

\* the sources of the comment, newline and directive tokens from position p on
RECURSIVE SourcesFrom(_)
SourcesFrom(p) ==
  IF p > Len(stream) THEN <<>>
  ELSE (IF stream[p].type \in {"comment", "newline", "directive"}
        THEN <<stream[p].source>> ELSE <<>>) \o SourcesFrom(p + 1)

\* the consolidated comment of the tokens seen since the last decoration
CommentSince == parsePrelude(SourcesFrom(LastDecoration + 1)).comment

\* the non-empty texts, in order, one per line
RECURSIVE Lines(_)
Lines(texts) ==
  IF texts = <<>> THEN EmptyStr
  ELSE IF ~Truthy(Head(texts)) THEN Lines(Tail(texts))
  ELSE IF ~Truthy(Lines(Tail(texts))) THEN Head(texts)
  ELSE Head(texts) \o NL \o Lines(Tail(texts))

\* C14: on a doc-end token with a buffered document D, the comments seen
\* since the last decoration of D are appended to D's trailing comment, after
\* the comment D already has and before the marker's own end comment, and
\* D's leading comments stay as they are; the prelude is emptied.  The
\* leading comment of the next document is made only of the comments seen
\* after the doc-end token.
C14_CommentsAcrossDocEnd ==
  [][IsNext =>
       /\ (StepToken.type = "doc-end" /\ doc # 0) =>
            /\ doc' = doc
            /\ docs'[doc].comment =
                 Lines(<<docs[doc].comment, CommentSince, StepToken.endComment>>)
            /\ Leading(docs'[doc]) = Leading(docs[doc])
            /\ prelude' = <<>>
       /\ StepToken.type = "document" =>
            /\ Lines(Leading(docs'[doc'])) = CommentSince
            /\ docs'[doc'].comment = StepToken.endComment
  ]_cvars

C14_Witness ==
  /\ StreamTypes = <<"document", "comment", "doc-end", "comment", "document">>
  /\ docs[1].comment = <<"d", "\n", "a", "\n", "e">>
  /\ Lines(Leading(docs[1])) = EmptyStr
  /\ docs[2].comment = EmptyStr
  /\ Lines(Leading(docs[2])) = <<"b">>

----------------------------------------------------------------------------
(* The leading comment of a new document: comments and newlines, then one  *)
(* document token of any kind of contents, or end().                       *)

DocumentTokensLeading ==
  {t \in [type : {"document"}, found : BOOLEAN, hasNewline : {TRUE},
          value : {"empty", "scalar", "block-map", "block-seq", "block-empty",
                   "flow-collection", "flow-seq"},
          nodeError : {FALSE},
          nodeComment : {EmptyStr, <<"n">>},
          itemComment : {EmptyStr, <<"i">>},
          endComment : {EmptyStr}] :
     t.itemComment # EmptyStr => t.value \in {"block-map", "block-seq", "flow-seq"}}

TokensLeading ==
  DocumentTokensLeading \cup NewlineTokens
    \cup [type : {"comment"}, source : {<<"#", "a">>}]

NextLeading ==
  \/ \E token \in TokensLeading :
       /\ ~ended /\ doc = 0 /\ ntokens < MaxTokens + 1
       /\ NextToken(token) /\ UNCHANGED vvars
  \/ \E forceDoc \in BOOLEAN :
       ~ended /\ doc = 0 /\ End(forceDoc, ntokens) /\ UNCHANGED vvars

SpecLeading == Init /\ [][NextLeading]_vars

\* the tokens fed are comments and newlines, and after the last comment
\* there is a blank line: at least two newlines
EndsAfterEmptyLine(n) ==
  \E c \in 1..n :
    /\ stream[c].type = "comment"
    /\ \A k \in c + 1..n : stream[k].type = "newline"
    /\ n - c >= 2

\* comment, then what the node had before, on the next line
Prepended(comment, cb) == IF Truthy(cb) THEN comment \o NL \o cb ELSE comment

\* a new document was decorated by the last call, with a non-empty comment:
\* by next() for a document token that follows comments, or by end() for a
\* forced document
NewDocumentWithComment ==
  /\ Len(docs) = 1
  /\ \E k \in 1..Len(stream) : stream[k].type = "comment"

\* C16: a non-empty leading comment of a new document goes to exactly one
\* place: the document's own commentBefore when the prelude ends after an
\* empty line, or the document has an explicit start marker, or it has no
\* contents; otherwise, for a non-flow collection with an item, in front of
\* the commentBefore of the first item (its key, for a pair); otherwise in
\* front of the commentBefore of the contents.
C16_LeadingCommentTarget ==
  NewDocumentWithComment =>
    LET d == docs[1]
        npre == IF d.tok = 0 THEN Len(stream) ELSE Len(stream) - 1
        comment == parsePrelude(SourcesFrom(1)).comment
        nodeComment == IF d.tok = 0 THEN EmptyStr ELSE stream[d.tok].nodeComment
        itemComment == IF d.tok = 0 THEN EmptyStr ELSE stream[d.tok].itemComment
        value == IF d.tok = 0 THEN "none" ELSE stream[d.tok].value
    IN /\ Truthy(comment)
       /\ IF EndsAfterEmptyLine(npre) \/ d.docStart \/ value = "none"
          THEN Leading(d) = <<comment, nodeComment, itemComment>>
          ELSE IF value \in {"block-map", "block-seq"}
          THEN Leading(d) = <<EmptyStr, nodeComment, Prepended(comment, itemComment)>>
          ELSE Leading(d) = <<EmptyStr, Prepended(comment, nodeComment), itemComment>>

\* a block map that has comments of its own, after a comment line
C16_Witness ==
  /\ StreamTypes = <<"comment", "newline", "document">>
  /\ stream[3].value = "block-map" /\ ~stream[3].found
  /\ docs[1].contents.firstCommentBefore = <<"a", "\n", "i">>
  /\ docs[1].contents.commentBefore = <<"n">>
  /\ docs[1].commentBefore = EmptyStr

----------------------------------------------------------------------------
(* parsePrelude, through streamInfo(): streams two tokens longer than       *)
(* MaxTokens of comments, newlines and directives.                         *)

TokensPrelude ==
  CommentTokens \cup NewlineTokens
    \cup {t \in DirectiveTokens : t.bad = "none"}

\* a call of streamInfo()
StreamInfo ==
  /\ ~ended
  /\ last.call = "next"
  /\ last' = [call |-> "streamInfo", info |-> streamInfo]
  /\ UNCHANGED <<directives, doc, atDirectives, prelude, errors, warnings,
                 docs, yielded, yieldedAs, stream, ended>>

NextPreludeInfo ==
  \/ \E token \in TokensPrelude :
       /\ ~ended /\ ntokens < MaxTokens + 2
       /\ NextToken(token) /\ UNCHANGED vvars
  \/ StreamInfo /\ UNCHANGED vvars

SpecPrelude == Init /\ [][NextPreludeInfo]_vars

IsComment(src) == Char0(src) = "#"
IsDirective(src) == Char0(src) = "%"

\* entry i is read as the end of the directive line before it: it directly
\* follows a directive that is not itself read so, and is not a comment
RECURSIVE EndsDirective(_, _)
EndsDirective(pre, i) ==
  /\ i > 1
  /\ IsDirective(pre[i - 1]) /\ ~EndsDirective(pre, i - 1)
  /\ ~IsComment(pre[i])

\* entry i is a blank line: it is neither a comment nor a directive nor the
\* end of a directive line, and the entry before it is not a comment
BlankLine(pre, i) ==
  /\ ~IsComment(pre[i]) /\ ~IsDirective(pre[i])
  /\ ~EndsDirective(pre, i)
  /\ i > 1 => ~IsComment(pre[i - 1])

\* the comments of the prelude from entry i on, the last comment before
\* them being entry prev (0 if none), joined as C17 says; the text of a
\* comment is its source without the marker, padded: a single space for a
\* source that is only the marker
RECURSIVE JoinedComments(_, _, _, _)
JoinedComments(pre, i, prev, padded) ==
  IF i > Len(pre) THEN EmptyStr
  ELSE IF ~IsComment(pre[i]) THEN JoinedComments(pre, i + 1, prev, padded)
  ELSE LET text == IF padded /\ Len(pre[i]) = 1 THEN <<" ">>
                   ELSE MarkerStripped(pre[i])
           sep == IF prev = 0 THEN EmptyStr
                  ELSE IF \E k \in prev + 1..i - 1 : BlankLine(pre, k)
                  THEN NL \o NL ELSE NL
       IN sep \o text \o JoinedComments(pre, i + 1, i, padded)

\* C17 as stated: the consolidated comment is made of the texts of the
\* comment entries with the marker stripped, in order, two successive ones
\* joined by one newline, or by two when a blank line lies between them.
C17_JoinedStrippedTexts ==
  last.call = "streamInfo" =>
    last.info.comment = JoinedComments(SourcesFrom(1), 1, 0, FALSE)

\* C17 amended: as stated, except that the text of a comment that is only
\* the marker is a single space.  A directive and the entry that directly
\* follows it (unless that entry is a comment) are one line, not a blank one.
C17_JoinedPaddedTexts ==
  last.call = "streamInfo" =>
    last.info.comment = JoinedComments(SourcesFrom(1), 1, 0, TRUE)

\* a comment line, a blank line, a bare marker, a comment
C17_Witness ==
  /\ last.call = "streamInfo"
  /\ StreamTypes = <<"comment", "newline", "newline", "comment", "comment">>
  /\ last.info.comment = <<"a", "\n", "\n", " ", "\n", "a">>

----------------------------------------------------------------------------
(* Properties of the visitor *)

CallIndexes == 1..Len(calls)

VisitedItems == [k \in CallIndexes |-> calls[k].item]

NoBreak == \A k \in CallIndexes : calls[k].ret # BREAK

\* the field of the parent's collection in which the call's item lies
FieldOf(c) == c.path[Len(c.path)][1]

SeqRange(q) == {q[k] : k \in 1..Len(q)}

NoopTraversal == \A k \in CallIndexes : calls[k].ret = Undefined

\* C6: a visitor that always returns undefined is invoked exactly once for
\* every item of the tree, in depth-first pre-order (key items before value
\* items, items in index order), each time with the path of the item; the
\* tree is left unchanged and no control value comes back from the root.
C6_NoopVisitsEveryItemOnce ==
  (vstate = "done" /\ NoopTraversal) =>
    /\ VisitedItems = Preorder(tree0, 1)
    /\ Len(calls) = Len(tree0)
    /\ \A k \in CallIndexes :
         /\ calls[k].stage = "entry" /\ calls[k].fn = Visitor
         /\ itemAtPath(tree0, calls[k].path) = calls[k].item
    /\ tree = tree0
    /\ returned = Undefined

C6_Witness ==
  /\ vstate = "done" /\ NoopTraversal
  /\ rootType = "item"
  /\ Len(tree0) = 4
  /\ tree0[1].key.items = <<2>> /\ tree0[2].value.items = <<3>>
  /\ tree0[1].value.items = <<4>>
  /\ Len(calls) = 4

\* the items for which the visitor returned REMOVE
Removed == {calls[k].item : k \in {j \in CallIndexes : calls[j].ret = REMOVE}}

RemoveTraversal ==
  /\ \A k \in CallIndexes : calls[k].ret \in {Undefined, REMOVE}
  /\ Removed # {}
  /\ 1 \notin Removed

Without(token, R) ==
  [token EXCEPT !.items = SelectSeq(@, LAMBDA x : x \notin R)]

RECURSIVE PrunedPreorder(_, _, _), PrunedPreorderAll(_, _, _)
\* the depth-first order of the tree, without the items below an item of R
PrunedPreorder(t, x, R) ==
  IF x \in R THEN <<x>>
  ELSE <<x>> \o PrunedPreorderAll(t, t[x].key.items, R)
           \o PrunedPreorderAll(t, t[x].value.items, R)
PrunedPreorderAll(t, items, R) ==
  IF items = <<>> THEN <<>>
  ELSE PrunedPreorder(t, Head(items), R) \o PrunedPreorderAll(t, Tail(items), R)

\* C7: when the visitor returns REMOVE for non-root items and undefined
\* elsewhere, then after the traversal every item list is the original list
\* without the removed items (the other items in their original order), and
\* every item that is not below a removed item, in particular the sibling
\* following a removed one, has been visited exactly once, in depth-first
\* order.
C7_RemoveKeepsFollowingSibling ==
  (vstate = "done" /\ RemoveTraversal) =>
    /\ tree = [x \in DOMAIN tree0 |->
                 [key |-> Without(tree0[x].key, Removed),
                  value |-> Without(tree0[x].value, Removed)]]
    /\ VisitedItems = PrunedPreorder(tree0, 1, Removed)

C7_Witness ==
  /\ vstate = "done" /\ RemoveTraversal
  /\ tree0[1].value.items = <<2, 3, 4>>
  /\ Removed = {2, 3}
  /\ tree[1].value.items = <<4>>
  /\ VisitedItems = <<1, 2, 3, 4>>

\* C8: once a visitor invocation (the entry call or a continuation call) has
\* returned BREAK, no visitor call is made afterwards.
C8_NoCallAfterBreak ==
  \A k \in CallIndexes : calls[k].ret = BREAK => k = Len(calls)

StageCalls(a, stage) ==
  {k \in CallIndexes : calls[k].act = a /\ calls[k].stage = stage}

\* the entry calls of the activations started from activation a in its field
ChildCalls(a, field) ==
  {k \in CallIndexes :
     calls[k].parent = a /\ calls[k].stage = "entry" /\ FieldOf(calls[k]) = field}

RECURSIVE Under(_, _)
\* activation x was started, directly or not, from activation a
Under(x, a) ==
  IF calls[x].parent = 0 THEN FALSE
  ELSE calls[x].parent = a \/ Under(calls[x].parent, a)

\* a visitor call of an activation under a returned BREAK
BreakUnder(a) ==
  \E j \in CallIndexes : calls[j].ret = BREAK /\ Under(calls[j].act, a)

\* C10 as stated: when the entry visitor returns a function F for an item
\* whose key is a collection, F is invoked after the key and F is invoked
\* again at the exit of the item, whatever it returned the first time.
C10_ExitInvokesFAgain ==
  (vstate = "done" /\ NoBreak) =>
    \A a \in CallIndexes :
      (calls[a].stage = "entry" /\ calls[a].ret.t = "function"
         /\ hasItems(tree0[calls[a].item].key)) =>
        /\ \E m \in StageCalls(a, "key") : calls[m].fn = calls[a].ret.f
        /\ \E x \in StageCalls(a, "exit") : calls[x].fn = calls[a].ret.f

\* C10 amended: when the entry visitor returns a function F for an item whose
\* key is a collection, F is invoked once after all key children have been
\* traversed and before any value child is visited; what F returns replaces
\* the continuation: exactly if it is a function, that function is invoked at
\* the very end of the item, after both subtrees.  When the key is not a
\* collection, F is invoked exactly once, at the exit of the item.  (An item
\* is left early only when an item below it returns BREAK.)
C10_ContinuationChain ==
  /\ \A k \in CallIndexes :
       LET c == calls[k]
           e == calls[c.act]
           keyItems == SeqRange(tree0[c.item].key.items)
           valueItems == SeqRange(tree0[c.item].value.items)
       IN /\ c.stage = "entry" => (c.fn = Visitor /\ c.act = k)
          /\ c.stage = "key" =>
               /\ e.stage = "entry" /\ e.ret = Function(c.fn)
               /\ hasItems(tree0[c.item].key)
               /\ StageCalls(c.act, "key") = {k}
               /\ {calls[j].item : j \in ChildCalls(c.act, "key")} = keyItems
               /\ \A j \in ChildCalls(c.act, "key") : j < k
               /\ \A j \in ChildCalls(c.act, "value") : j > k
          /\ c.stage = "exit" =>
               /\ e.stage = "entry" /\ e.ret.t = "function"
               /\ StageCalls(c.act, "exit") = {k}
               /\ IF hasItems(tree0[c.item].key)
                  THEN \E m \in StageCalls(c.act, "key") :
                         m < k /\ calls[m].ret = Function(c.fn)
                  ELSE e.ret = Function(c.fn) /\ StageCalls(c.act, "key") = {}
               /\ {calls[j].item : j \in ChildCalls(c.act, "value")} = valueItems
               /\ \A j \in CallIndexes :
                    (calls[j].parent = c.act \/ calls[j].act = c.act) => j <= k
  /\ \A a \in CallIndexes :
       (calls[a].stage = "entry" /\ calls[a].ret.t = "function") =>
         /\ (hasItems(tree0[calls[a].item].key) /\ ChildCalls(a, "value") # {}) =>
              StageCalls(a, "key") # {}
         /\ (vstate = "done" /\ ~BreakUnder(a)) =>
              IF hasItems(tree0[calls[a].item].key)
              THEN \E m \in StageCalls(a, "key") :
                     /\ calls[m].fn = calls[a].ret.f
                     /\ calls[m].ret.t = "function" <=> StageCalls(a, "exit") # {}
              ELSE \E x \in StageCalls(a, "exit") : calls[x].fn = calls[a].ret.f

C10_Witness ==
  /\ vstate = "done"
  /\ Len(calls) = 5
  /\ calls[1].ret = Function("F")
  /\ calls[2].path = <<<<"key", 0>>>>
  /\ calls[3].stage = "key" /\ calls[3].fn = "F" /\ calls[3].ret = Function("G")
  /\ calls[4].path = <<<<"value", 0>>>>
  /\ calls[5].stage = "exit" /\ calls[5].fn = "G" /\ calls[5].item = 1

\* the last step of the path of call k: the field and the index of its item
\* in the parent's collection
LastStep(k) == calls[k].path[Len(calls[k].path)]

\* the entry calls after call k on items of the collection that holds the
\* item of call k
LaterSiblings(k) ==
  {j \in CallIndexes :
     /\ j > k
     /\ calls[j].stage = "entry"
     /\ calls[j].parent = calls[k].parent
     /\ LastStep(j)[1] = LastStep(k)[1]}

\* the item list that holds the item of call k (no item is removed or
\* inserted in these traversals)
SiblingsOf(k) == tree0[calls[calls[k].parent].item][LastStep(k)[1]].items

Min(S) == CHOOSE x \in S : \A y \in S : x <= y

\* C11: when a visitor call for a non-root item returns an integer n, the
\* next sibling visited in the parent's collection is the item at index n
\* (whether n lies before or after the current index) if n is less than the
\* length of the item list, and no further sibling of that collection is
\* visited if n is at least the length.
C11_NumberSetsNextSibling ==
  \A k \in CallIndexes :
    (calls[k].ret.t = "number" /\ calls[k].parent # 0) =>
      LET n == calls[k].ret.n
          items == SiblingsOf(k)
      IN IF n < Len(items)
         THEN /\ vstate = "done" => LaterSiblings(k) # {}
              /\ LaterSiblings(k) # {} =>
                   LET j == Min(LaterSiblings(k)) IN
                   /\ LastStep(j) = <<LastStep(k)[1], n>>
                   /\ calls[j].item = items[n + 1]
         ELSE LaterSiblings(k) = {}

\* the second of three siblings sends the traversal back to the first
C11_Witness ==
  /\ vstate = "done"
  /\ Len(tree0[1].value.items) = 3
  /\ Len(calls) = 6
  /\ calls[3].path = <<<<"value", 1>>>> /\ calls[3].ret = Number(0)
  /\ calls[4].path = <<<<"value", 0>>>>
  /\ calls[6].path = <<<<"value", 2>>>>

\* the visitor call made by the step, if it makes one
LastCall == calls'[Len(calls')]

\* C21 as stated: at every visitor invocation of a traversal in which the
\* tree changes only through REMOVE returns, itemAtPath(root, path) on the
\* root given to visit and the tree as it is at the invocation resolves to
\* exactly the item handed to the visitor.
C21_PathResolvesToHandedItem ==
  [][calls' # calls =>
       itemAtPathOf(rootType, tree, LastCall.path)
         = handedItem(rootType, LastCall.item, LastCall.path)]_vars

\* C21 amended: at every visitor invocation with a non-empty path, and at
\* the invocation for the root when the root is an item, itemAtPath(root,
\* path) on the tree as it is at the invocation resolves to exactly the item
\* handed to the visitor, also after earlier siblings were removed.  At the
\* invocation for the root of a document, the visitor is handed the item
\* that visit has made of the document, and itemAtPath(root, []) is the
\* document.
C21_PathResolvesBelowDocument ==
  [][calls' # calls =>
       IF LastCall.path # <<>> \/ rootType = "item"
       THEN /\ itemAtPath(tree, LastCall.path) = LastCall.item
            /\ itemAtPathOf(rootType, tree, LastCall.path)
                 = handedItem(rootType, LastCall.item, LastCall.path)
       ELSE /\ handedItem(rootType, LastCall.item, LastCall.path) = DocumentItem
            /\ itemAtPathOf(rootType, tree, LastCall.path) = DocumentObject]_vars

\* the second of three siblings is visited at index 0 after the first was
\* removed, and its exit call is made with that path
C21_Witness ==
  /\ rootType = "item"
  /\ Len(tree0) = 4 /\ tree0[1].value.items = <<2, 3, 4>>
  /\ Len(calls) = 4
  /\ calls[2].item = 2 /\ calls[2].ret = REMOVE
  /\ calls[3].item = 3 /\ calls[3].path = <<<<"value", 0>>>>
  /\ calls[3].ret = Function("F")
  /\ calls[4].stage = "exit" /\ calls[4].item = 3
  /\ calls[4].path = <<<<"value", 0>>>>
  /\ tree[1].value.items = <<3, 4>>

\* the calls made for item x at the given stage
ItemCalls(x, stage) ==
  {k \in CallIndexes : calls[k].item = x /\ calls[k].stage = stage}

\* the item list that held the item of call c when the call was made
ListOf(t, c) == t[calls[c.parent].item][FieldOf(c)].items

\* every item has had at most one entry call, one call after its key and one
\* call at its exit
AtMostThreeCalls ==
  /\ \A x \in DOMAIN tree0, stage \in {"entry", "key", "exit"} :
       Cardinality(ItemCalls(x, stage)) <= 1
  /\ Len(calls) <= 3 * Len(tree0)

\* after the traversal, no item for which a call returned REMOVE is left in
\* the list that held it (unless a BREAK has ended the traversal)
RemovedAtEnd ==
  (vstate = "done" /\ NoBreak) =>
    \A k \in CallIndexes :
      (calls[k].ret = REMOVE /\ calls[k].path # <<>>) =>
        calls[k].item \notin SeqRange(ListOf(tree, calls[k]))

\* no step makes an item list longer, and a REMOVE returned by the entry or
\* by the exit call of an item makes the list that holds it one shorter
RemoveShrinks ==
  /\ \A x \in DOMAIN tree, f \in {"key", "value"} :
       Len(tree'[x][f].items) <= Len(tree[x][f].items)
  /\ (LastCall.ret = REMOVE /\ LastCall.path # <<>> /\ LastCall.stage # "key") =>
       /\ Len(ListOf(tree', LastCall)) = Len(ListOf(tree, LastCall)) - 1
       /\ LastCall.item \notin SeqRange(ListOf(tree', LastCall))

\* after a call has returned an index not greater than the index of its
\* item, the traversal is not over: an entry call is due for the first item
\* below that item or, when there is none, for the sibling at that index,
\* which is the item itself or one before it
RevisitsSiblings ==
  LET c == calls[Len(calls)]
      top == Top(stack)
  IN /\ vstate = "running" /\ top.pc = "entry"
     /\ c.ret.t = "number" /\ c.path # <<>>
     /\ IF tree[c.item].key.items # <<>> \/ tree[c.item].value.items # <<>>
        THEN top.parent = c.act
        ELSE /\ top.parent = c.parent
             /\ top.path = Append(sliceLast(c.path), <<FieldOf(c), c.ret.n>>)
             /\ c.ret.n <= c.path[Len(c.path)][2]
             /\ top.item = ListOf(tree, c)[c.ret.n + 1]

\* C22: with a visitor and continuations that return only undefined, SKIP,
\* BREAK, REMOVE or a function, any number of times, every traversal of a
\* tree comes to its end: every item has at most three visitor calls (entry,
\* after the key, exit) and every REMOVE that takes effect makes an item
\* list shorter.  With a visitor that keeps returning an index not greater
\* than the index of the item it is called for, the traversal never comes
\* to its end: after each such call another call on the same siblings, or
\* on items below them, is due.
C22_TerminatesWithoutNumbers ==
  /\ (vstate = "running") ~> (vstate = "done" \/ NumberReturned)
  /\ [](~NumberReturned => (AtMostThreeCalls /\ RemovedAtEnd))
  /\ [][(calls' # calls /\ ~NumberReturned') => RemoveShrinks]_vars
  /\ [](NumberReturned => RevisitsSiblings)

\* a traversal that has ended after three calls for the root, the second
\* after the only key item was removed
C22_Witness ==
  /\ vstate = "done"
  /\ Len(tree0) = 3
  /\ tree0[1].key.items = <<2>> /\ tree0[1].value.items = <<3>>
  /\ Len(calls) = 5
  /\ calls[1].ret = Function("F")
  /\ calls[2].item = 2 /\ calls[2].ret = REMOVE
  /\ calls[3].stage = "key" /\ calls[3].ret = Function("F")
  /\ calls[4].item = 3
  /\ calls[5].stage = "exit" /\ calls[5].item = 1
  /\ tree[1].key.items = <<>>

====
